---- MODULE Spec2Model ----
(***************************************************************************)
(* Document Style Formatter (src/main.py): the style extractor, the style  *)
(* applier and the action handler that drives them.                        *)
(*                                                                         *)
(* Python values are modelled as follows.                                  *)
(*   - an optional value is None (<<>>) or Some(v) (<<v>>);                *)
(*   - paragraph and role text is a sequence of one-character strings, so  *)
(*     that str.strip and str.capitalize are computed, not assumed;        *)
(*   - lengths (docx Length, an int subclass) are integers, 0 is falsy;    *)
(*   - WD_PARAGRAPH_ALIGNMENT members are their integer values, LEFT = 0,  *)
(*     and, being int-valued, LEFT is falsy;                               *)
(*   - an RGBColor is a 3-tuple, hence truthy whenever it is present; it   *)
(*     is modelled by its 24-bit value.                                    *)
(***************************************************************************)
EXTENDS Integers, Sequences, FiniteSets, TLC

VARIABLES
    pc,        \* position of the running operation
    body,      \* the request body handed to Action.action
    source,    \* the document the uploaded file holds (for a PDF, the one its
               \* conversion yields); valid is FALSE when the bytes hold none
    file_ext,  \* the handler's local file_ext
    exc,       \* the exception being propagated, "" when none
    fs,        \* temporary files that exist on disk
    styles,    \* the StyleModel (DocumentStyleExtractor.styles / Applier.styles)
    chat,      \* the content items handed to add_chat_content
    doc,       \* the Applier's output document
    result,    \* what Action.action returned
    target,    \* a paragraph a style is applied to
    tstyle,    \* the ParagraphStyle applied to target
    before,    \* target as it was before the style was applied
    me,        \* which invocation of Action.action is running
    others     \* the locals of the invocation that is not running now

vars ==
    <<pc, body, source, file_ext, exc, fs, styles, chat, doc, result,
      target, tstyle, before, me, others>>

----------------------------------------------------------------------------
(* Optional values and Python truthiness *)

None == <<>>

Some(v) == <<v>>

\* bool(x) of an optional number (int, float, Length, int-valued enum)
TruthyNum(x) == x # None /\ x[1] # 0

\* bool(x) of an optional str held as a TLA+ string
TruthyStr(x) == x # None /\ x[1] # ""

\* bool(x) of an optional RGBColor (a non-empty tuple)
TruthyColor(x) == x # None

----------------------------------------------------------------------------
(* Text *)

Whitespace == {" "}

RECURSIVE LStrip(_)
LStrip(t) ==
    IF t # <<>> /\ Head(t) \in Whitespace THEN LStrip(Tail(t)) ELSE t

RECURSIVE RStrip(_)
RStrip(t) ==
    IF t # <<>> /\ t[Len(t)] \in Whitespace
    THEN RStrip(SubSeq(t, 1, Len(t) - 1))
    ELSE t

\* str.strip()
Strip(t) == RStrip(LStrip(t))

LowerChars == <<"a", "e", "r", "s", "u">>

UpperChars == <<"A", "E", "R", "S", "U">>

\* str.upper() / str.lower() of one character
UpperOf(c) ==
    IF \E i \in 1..Len(LowerChars) : LowerChars[i] = c
    THEN UpperChars[CHOOSE i \in 1..Len(LowerChars) : LowerChars[i] = c]
    ELSE c

LowerOf(c) ==
    IF \E i \in 1..Len(UpperChars) : UpperChars[i] = c
    THEN LowerChars[CHOOSE i \in 1..Len(UpperChars) : UpperChars[i] = c]
    ELSE c

\* str.capitalize(): first character upper-cased, the rest lower-cased
Capitalize(t) ==
    IF t = <<>> THEN <<>>
    ELSE <<UpperOf(t[1])>> \o [i \in 1..(Len(t) - 1) |-> LowerOf(t[i + 1])]

RECURSIVE Concat(_)
Concat(ss) == IF ss = <<>> THEN <<>> ELSE Head(ss) \o Concat(Tail(ss))

----------------------------------------------------------------------------
(* python-docx objects as the code reads and writes them *)

AllNoneFont ==
    [name |-> None, size |-> None, color |-> None,
     bold |-> None, italic |-> None, underline |-> None]

\* paragraph.add_run(text): a run with no formatting of its own
NewRun(text) ==
    [text |-> text, name |-> None, size |-> None, color |-> None,
     bold |-> None, italic |-> None, underline |-> None]

\* document.add_paragraph(): a paragraph with no runs and no formatting
NewParagraph ==
    [kind |-> "p", runs |-> <<>>, style_name |-> <<"Normal">>,
     alignment |-> None, line_spacing |-> None,
     left_indent |-> None, right_indent |-> None,
     first_line_indent |-> None, hanging_indent |-> None,
     space_before |-> None, space_after |-> None]

\* paragraph.text: the text of its runs, concatenated
ParagraphText(p) == Concat([i \in 1..Len(p.runs) |-> p.runs[i].text])

\* paragraph.text = t: the runs are replaced by one unformatted run
SetParagraphText(p, t) == [p EXCEPT !.runs = <<NewRun(t)>>]

\* cell.text: the text of the cell's paragraphs joined by newlines
RECURSIVE JoinLines(_)
JoinLines(ps) ==
    IF ps = <<>> THEN <<>>
    ELSE IF Len(ps) = 1 THEN ParagraphText(ps[1])
    ELSE ParagraphText(ps[1]) \o <<"\n">> \o JoinLines(Tail(ps))

CellText(cell) == JoinLines(cell.paragraphs)

----------------------------------------------------------------------------
(* Exceptions: an operation either returns a value or raises *)

Return(v) == [ok |-> TRUE, exc |-> "", value |-> v]

Raise(e) == [ok |-> FALSE, exc |-> e, value |-> None]

----------------------------------------------------------------------------
(* DocumentStyleExtractor *)

\* The methods the class statement of DocumentStyleExtractor defines.
DocumentStyleExtractorMethods == {"__init__", "extract_from_docx"}

\* The methods of the DocumentStyleApplier class the module ends up with:
\* the second class statement of that name rebinds the name, so the first
\* statement's methods (__init__, _extract_paragraph_style) belong to a
\* class nothing refers to any more.
DocumentStyleApplierMethods ==
    {"__init__", "_apply_document_settings", "add_headers", "add_footers",
     "add_chat_content", "add_tables", "_apply_style_to_paragraph",
     "_apply_font_to_run", "save", "get_bytes"}

\* DocumentStyleExtractor.__init__: self.styles
InitialStyles ==
    [default_font |->
        [name |-> Some("Calibri"), size |-> Some(11), color |-> Some(0),
         bold |-> Some(FALSE), italic |-> Some(FALSE), underline |-> Some(FALSE)],
     heading_styles |-> <<>>,
     paragraph_styles |-> <<>>,
     headers |-> <<>>,
     footers |-> <<>>,
     tables |-> <<>>,
     page_breaks |-> <<>>,
     sections |-> <<>>,
     margins |-> [top |-> None, bottom |-> None, left |-> None, right |-> None],
     indentations |->
        [left |-> None, right |-> None, first_line |-> None, hanging |-> None],
     line_spacing |-> None,
     alignment |-> Some(0)]

\* The body of _extract_paragraph_style. The font dictionary left empty ({})
\* is held as the all-None font: every reader goes through .get(), which
\* answers None for both.
extract_paragraph_style(paragraph) ==
    [font |->
        IF paragraph.runs # <<>>
        THEN LET first_run == paragraph.runs[1]
             IN [name |-> first_run.name,
                 size |-> first_run.size,
                 color |-> IF TruthyColor(first_run.color)
                           THEN first_run.color ELSE None,
                 bold |-> first_run.bold,
                 italic |-> first_run.italic,
                 underline |-> first_run.underline]
        ELSE AllNoneFont,
     alignment |-> paragraph.alignment,
     line_spacing |-> paragraph.line_spacing,
     indentation |->
        [left |-> paragraph.left_indent,
         right |-> paragraph.right_indent,
         first_line |-> paragraph.first_line_indent,
         hanging |-> paragraph.hanging_indent],
     space_before |-> paragraph.space_before,
     space_after |-> paragraph.space_after]

\* if paragraph.text.strip():
HasText(paragraph) == Strip(ParagraphText(paragraph)) # <<>>

SectionInfo(section) ==
    [margins |->
        [top |-> section.top_margin, bottom |-> section.bottom_margin,
         left |-> section.left_margin, right |-> section.right_margin],
     page_break_before |-> section.start_type = "NEW_PAGE"]

RECURSIVE HeaderParagraphs(_)
HeaderParagraphs(sections) ==
    IF sections = <<>> THEN <<>>
    ELSE Head(sections).header \o HeaderParagraphs(Tail(sections))

RECURSIVE FooterParagraphs(_)
FooterParagraphs(sections) ==
    IF sections = <<>> THEN <<>>
    ELSE Head(sections).footer \o FooterParagraphs(Tail(sections))

\* the entries appended to styles['headers'] / styles['footers']
TextAndStyle(paragraphs) ==
    LET kept == SelectSeq(paragraphs, HasText)
    IN [i \in 1..Len(kept) |->
            [text |-> ParagraphText(kept[i]),
             style |-> extract_paragraph_style(kept[i])]]

\* paragraph.style.name.startswith('Heading'): a style name is held as its
\* first word followed by the rest, <<"Heading", " 1">> for 'Heading 1'
IsHeading(paragraph) ==
    paragraph.style_name # <<>> /\ paragraph.style_name[1] = "Heading"

IsNotHeading(paragraph) == ~IsHeading(paragraph)

\* the entries appended to styles['heading_styles']
HeadingStylesOf(paragraphs) ==
    LET kept == SelectSeq(SelectSeq(paragraphs, HasText), IsHeading)
    IN [i \in 1..Len(kept) |-> extract_paragraph_style(kept[i])]

\* the entries appended to styles['paragraph_styles']
ParagraphStylesOf(paragraphs) ==
    LET kept == SelectSeq(SelectSeq(paragraphs, HasText), IsNotHeading)
    IN [i \in 1..Len(kept) |-> extract_paragraph_style(kept[i])]

CellData(cell) ==
    [text |-> CellText(cell),
     style |-> IF cell.paragraphs # <<>>
               THEN Some(extract_paragraph_style(cell.paragraphs[1]))
               ELSE None]

TableData(table) ==
    [rows |-> [r \in 1..Len(table.rows) |->
                  [c \in 1..Len(table.rows[r]) |-> CellData(table.rows[r][c])]],
     style |-> None]

\* "Set defaults from first paragraph if available"
FirstParagraphDefaults(st, paragraphs) ==
    IF paragraphs = <<>> THEN st
    ELSE
    LET first_para == paragraphs[1]
        df == st.default_font
        font ==
            IF first_para.runs = <<>> THEN df
            ELSE LET run == first_para.runs[1]
                 IN [name |-> IF TruthyStr(run.name) THEN run.name ELSE df.name,
                     size |-> IF TruthyNum(run.size) THEN run.size ELSE df.size,
                     color |-> IF TruthyColor(run.color) THEN run.color ELSE df.color,
                     bold |-> IF run.bold # None THEN run.bold ELSE df.bold,
                     italic |-> IF run.italic # None THEN run.italic ELSE df.italic,
                     underline |-> IF run.underline # None
                                   THEN run.underline ELSE df.underline]
        ind == st.indentations
    IN [st EXCEPT
          !.default_font = font,
          !.line_spacing = IF TruthyNum(first_para.line_spacing)
                           THEN first_para.line_spacing ELSE @,
          !.alignment = IF TruthyNum(first_para.alignment)
                        THEN first_para.alignment ELSE @,
          !.indentations =
              [left |-> IF TruthyNum(first_para.left_indent)
                        THEN first_para.left_indent ELSE ind.left,
               right |-> IF TruthyNum(first_para.right_indent)
                         THEN first_para.right_indent ELSE ind.right,
               first_line |-> IF TruthyNum(first_para.first_line_indent)
                              THEN first_para.first_line_indent ELSE ind.first_line,
               hanging |-> ind.hanging]]

\* Whether extract_from_docx reaches a call of self._extract_paragraph_style:
\* a header, footer or body paragraph with text, or a table cell that has a
\* paragraph.
CallsExtractParagraphStyle(d) ==
    \/ \E i \in 1..Len(HeaderParagraphs(d.sections)) :
          HasText(HeaderParagraphs(d.sections)[i])
    \/ \E i \in 1..Len(FooterParagraphs(d.sections)) :
          HasText(FooterParagraphs(d.sections)[i])
    \/ \E i \in 1..Len(d.paragraphs) : HasText(d.paragraphs[i])
    \/ \E t \in 1..Len(d.tables) : \E r \in 1..Len(d.tables[t].rows) :
          \E c \in 1..Len(d.tables[t].rows[r]) :
             d.tables[t].rows[r][c].paragraphs # <<>>

\* self.styles after extract_from_docx(d) on an extractor whose self.styles is
\* st, when every call it makes returns: the lists are appended to, margins
\* and the first-paragraph defaults are assigned.
ExtractInto(st, d) ==
    LET st1 == [st EXCEPT
                  !.sections = @ \o [i \in 1..Len(d.sections) |-> SectionInfo(d.sections[i])],
                  !.margins = IF d.sections # <<>>
                              THEN SectionInfo(d.sections[1]).margins ELSE @,
                  !.headers = @ \o TextAndStyle(HeaderParagraphs(d.sections)),
                  !.footers = @ \o TextAndStyle(FooterParagraphs(d.sections)),
                  !.heading_styles = @ \o HeadingStylesOf(d.paragraphs),
                  !.paragraph_styles = @ \o ParagraphStylesOf(d.paragraphs),
                  !.tables = @ \o [t \in 1..Len(d.tables) |-> TableData(d.tables[t])]]
    IN FirstParagraphDefaults(st1, d.paragraphs)

\* The styles extract_from_docx returns on a fresh extractor.
ExtractedStyles(d) == ExtractInto(InitialStyles, d)

\* a table with a cell that has a paragraph: its cell style is extracted
CellStyleExtracted(table) ==
    \E r \in 1..Len(table.rows) : \E c \in 1..Len(table.rows[r]) :
       table.rows[r][c].paragraphs # <<>>

\* the tables appended before the first one whose cell style is extracted
TablesBeforeRaise(tables) ==
    LET stops == {t \in 1..Len(tables) : CellStyleExtracted(tables[t])}
        n == IF stops = {} THEN Len(tables)
             ELSE (CHOOSE t \in stops : \A u \in stops : t <= u) - 1
    IN [t \in 1..n |-> TableData(tables[t])]

\* self.styles when extract_from_docx(d) has raised: nothing is written
\* before Document() raises; otherwise the sections loop has run, and the
\* tables loop has run up to the raising call when no paragraph, header or
\* footer with text raised before it.
StylesAfterRaise(st, d) ==
    IF ~d.valid THEN st
    ELSE LET st1 == [st EXCEPT
                       !.sections = @ \o [i \in 1..Len(d.sections) |-> SectionInfo(d.sections[i])],
                       !.margins = IF d.sections # <<>>
                                   THEN SectionInfo(d.sections[1]).margins ELSE @]
             raisedBeforeTables ==
                \/ \E i \in 1..Len(HeaderParagraphs(d.sections)) :
                      HasText(HeaderParagraphs(d.sections)[i])
                \/ \E i \in 1..Len(FooterParagraphs(d.sections)) :
                      HasText(FooterParagraphs(d.sections)[i])
                \/ \E i \in 1..Len(d.paragraphs) : HasText(d.paragraphs[i])
         IN IF raisedBeforeTables THEN st1
            ELSE [st1 EXCEPT !.tables = @ \o TablesBeforeRaise(d.tables)]

\* extract_from_docx(docx_path) on an extractor whose self.styles is st.
\* Document(docx_path) raises on a file that is no DOCX package; a call of a
\* method the class does not define raises AttributeError.
extract_from_docx_on(st, d) ==
    IF ~d.valid THEN Raise("PackageNotFoundError")
    ELSE IF CallsExtractParagraphStyle(d)
            /\ "_extract_paragraph_style" \notin DocumentStyleExtractorMethods
         THEN Raise("AttributeError")
         ELSE Return(ExtractInto(st, d))

\* DocumentStyleExtractor().extract_from_docx(docx_path): a fresh extractor
extract_from_docx(d) == extract_from_docx_on(InitialStyles, d)

\* extractor.extract_from_pdf(path): DocumentStyleExtractorMethods holds no
\* such name, so the attribute lookup raises before anything is converted.
extract_from_pdf(d) == Raise("AttributeError")

----------------------------------------------------------------------------
(* DocumentStyleApplier *)

\* Document(): the built-in template. One section with the template's page
\* margins (twentieths of a point), an empty body, and a header and a footer
\* that each hold one empty paragraph once they are accessed.
BlankDocument ==
    [margins |-> [top |-> Some(1440), bottom |-> Some(1440),
                  left |-> Some(1800), right |-> Some(1800)],
     header |-> <<NewParagraph>>,
     footer |-> <<NewParagraph>>,
     body |-> <<>>]

apply_document_settings(d, st) ==
    IF st.sections # <<>>
    THEN LET margins == st.margins
         IN [d EXCEPT
               !.margins.top = IF TruthyNum(margins.top) THEN margins.top ELSE @,
               !.margins.bottom = IF TruthyNum(margins.bottom) THEN margins.bottom ELSE @,
               !.margins.left = IF TruthyNum(margins.left) THEN margins.left ELSE @,
               !.margins.right = IF TruthyNum(margins.right) THEN margins.right ELSE @]
    ELSE d

\* DocumentStyleApplier.__init__
NewApplierDocument(st) == apply_document_settings(BlankDocument, st)

\* every field assigned, set in the style or not
apply_font_to_run_unconditional(run, font_info) ==
    [run EXCEPT
       !.name = font_info.name, !.size = font_info.size,
       !.color = font_info.color, !.bold = font_info.bold,
       !.italic = font_info.italic, !.underline = font_info.underline]

\* "if not font_info: return" adds nothing: an empty or missing dictionary
\* is the all-None font, for which every branch below is skipped.
\* _apply_font_to_run with the three booleans under the tests of the other
\* fields: 'if font_info.get("bold"):' and so on.
apply_font_to_run_truthy(run, font_info) ==
    [run EXCEPT
       !.name = IF TruthyStr(font_info.name) THEN font_info.name ELSE @,
       !.size = IF TruthyNum(font_info.size) THEN font_info.size ELSE @,
       !.color = IF TruthyColor(font_info.color) THEN font_info.color ELSE @,
       !.bold = IF font_info.bold = Some(TRUE) THEN font_info.bold ELSE @,
       !.italic = IF font_info.italic = Some(TRUE) THEN font_info.italic ELSE @,
       !.underline = IF font_info.underline = Some(TRUE)
                     THEN font_info.underline ELSE @]

apply_font_to_run(run, font_info) ==
    [run EXCEPT
       !.name = IF TruthyStr(font_info.name) THEN font_info.name ELSE @,
       !.size = IF TruthyNum(font_info.size) THEN font_info.size ELSE @,
       !.color = IF TruthyColor(font_info.color) THEN font_info.color ELSE @,
       !.bold = IF font_info.bold # None THEN font_info.bold ELSE @,
       !.italic = IF font_info.italic # None THEN font_info.italic ELSE @,
       !.underline = IF font_info.underline # None THEN font_info.underline ELSE @]

\* style_info is None or Some(style dictionary)
apply_style_to_paragraph(paragraph, style_info) ==
    IF style_info = None THEN paragraph
    ELSE
    LET s == style_info[1]
        indent == s.indentation
        p1 == [paragraph EXCEPT
                 !.alignment = IF TruthyNum(s.alignment) THEN s.alignment ELSE @,
                 !.line_spacing = IF TruthyNum(s.line_spacing) THEN s.line_spacing ELSE @,
                 !.left_indent = IF TruthyNum(indent.left) THEN indent.left ELSE @,
                 !.right_indent = IF TruthyNum(indent.right) THEN indent.right ELSE @,
                 !.first_line_indent =
                     IF TruthyNum(indent.first_line) THEN indent.first_line ELSE @,
                 !.hanging_indent = IF TruthyNum(indent.hanging) THEN indent.hanging ELSE @,
                 !.space_before = IF TruthyNum(s.space_before) THEN s.space_before ELSE @,
                 !.space_after = IF TruthyNum(s.space_after) THEN s.space_after ELSE @]
    IN [p1 EXCEPT
          !.runs = [i \in 1..Len(p1.runs) |-> apply_font_to_run(p1.runs[i], s.font)]]

\* One pass of the add_headers / add_footers loop over the region's
\* paragraphs: paragraphs[0] if there is one, else add_paragraph().
RECURSIVE WriteEntries(_, _)
WriteEntries(region, entries) ==
    IF entries = <<>> THEN region
    ELSE
    LET info == Head(entries)
        slot == IF region # <<>> THEN region[1] ELSE NewParagraph
        para == apply_style_to_paragraph(SetParagraphText(slot, info.text),
                                         Some(info.style))
        region1 == IF region # <<>> THEN [region EXCEPT ![1] = para]
                   ELSE <<para>>
    IN WriteEntries(region1, Tail(entries))

add_headers(d, st) == [d EXCEPT !.header = WriteEntries(@, st.headers)]

add_footers(d, st) == [d EXCEPT !.footer = WriteEntries(@, st.footers)]

DefaultRole == <<"u", "s", "e", "r">>

\* message.get('role', 'user'), message.get('content', '')
RoleOf(message) == IF message.role = None THEN DefaultRole ELSE message.role[1]

ContentOf(message) == IF message.content = None THEN <<>> ELSE message.content[1]

\* The role label with bold set before the default font is applied.
RoleParagraphFontLast(st, message) ==
    LET role_run == [NewRun(Capitalize(RoleOf(message)) \o <<":", " ">>)
                        EXCEPT !.bold = Some(TRUE)]
    IN [NewParagraph EXCEPT
          !.runs = <<apply_font_to_run(role_run, st.default_font)>>]

\* the role-label paragraph of one message
RoleParagraph(st, message) ==
    LET role_run == apply_font_to_run(
                        NewRun(Capitalize(RoleOf(message)) \o <<":", " ">>),
                        st.default_font)
    IN [NewParagraph EXCEPT !.runs = <<[role_run EXCEPT !.bold = Some(TRUE)]>>]

\* The content paragraph styled with the last captured paragraph style.
ContentParagraphLastStyle(st, message) ==
    LET content_para == [NewParagraph EXCEPT !.runs = <<NewRun(ContentOf(message))>>]
    IN IF st.paragraph_styles # <<>>
       THEN apply_style_to_paragraph(
                content_para, Some(st.paragraph_styles[Len(st.paragraph_styles)]))
       ELSE [content_para EXCEPT
               !.runs = <<apply_font_to_run(NewRun(ContentOf(message)),
                                            st.default_font)>>]

\* the content paragraph of one message
ContentParagraph(st, message) ==
    LET para_style == IF st.paragraph_styles # <<>>
                      THEN Some(st.paragraph_styles[1]) ELSE None
        content_run == NewRun(ContentOf(message))
        content_para == [NewParagraph EXCEPT !.runs = <<content_run>>]
    IN IF para_style # None
       THEN apply_style_to_paragraph(content_para, para_style)
       ELSE [content_para EXCEPT
               !.runs = <<apply_font_to_run(content_run, st.default_font)>>]

\* what iteration i (1-based) of the add_chat_content loop appends
MessageParagraphsTrailing(st, chat_messages, i) ==
    <<RoleParagraph(st, chat_messages[i]),
      ContentParagraph(st, chat_messages[i]),
      NewParagraph>>

MessageParagraphsSwapped(st, chat_messages, i) ==
    <<ContentParagraph(st, chat_messages[i]),
      RoleParagraph(st, chat_messages[i])>>
    \o (IF i < Len(chat_messages) THEN <<NewParagraph>> ELSE <<>>)

MessageParagraphs(st, chat_messages, i) ==
    <<RoleParagraph(st, chat_messages[i]),
      ContentParagraph(st, chat_messages[i])>>
    \o (IF i < Len(chat_messages) THEN <<NewParagraph>> ELSE <<>>)

add_chat_content(d, st, chat_messages) ==
    [d EXCEPT !.body = @ \o Concat([i \in 1..Len(chat_messages) |->
                                      MessageParagraphs(st, chat_messages, i)])]

\* table.add_row() then the loop over row_data: the new row has num_cols
\* cells, each with one empty paragraph; row.cells[j] past them raises
\* IndexError.
FilledRow(num_cols, row_data) ==
    [j \in 1..num_cols |->
        IF j <= Len(row_data)
        THEN LET cell == SetParagraphText(NewParagraph, row_data[j].text)
             IN IF row_data[j].style # None
                THEN apply_style_to_paragraph(cell, row_data[j].style)
                ELSE cell
        ELSE NewParagraph]

RowFits(num_cols, row_data) == Len(row_data) <= num_cols

\* The add_tables loop with break where the code has continue: a table
\* without rows ends the loop.
RECURSIVE AddTableEntriesBreak(_, _)
AddTableEntriesBreak(elements, tables) ==
    IF tables = <<>> THEN Return(elements)
    ELSE
    LET table_info == Head(tables)
    IN IF table_info.rows = <<>> THEN Return(elements)
       ELSE
       LET num_cols == Len(table_info.rows[1])
           fits == \A r \in 1..Len(table_info.rows) :
                      RowFits(num_cols, table_info.rows[r])
           table == [kind |-> "tbl", cols |-> num_cols,
                     rows |-> [r \in 1..Len(table_info.rows) |->
                                  FilledRow(num_cols, table_info.rows[r])]]
       IN IF ~fits THEN Raise("IndexError")
          ELSE AddTableEntriesBreak(elements \o <<table, NewParagraph>>,
                                    Tail(tables))

\* The add_tables loop from table_info on: Return(body elements) or Raise.
RECURSIVE AddTableEntries(_, _)
AddTableEntries(elements, tables) ==
    IF tables = <<>> THEN Return(elements)
    ELSE
    LET table_info == Head(tables)
    IN IF table_info.rows = <<>> THEN AddTableEntries(elements, Tail(tables))
       ELSE
       LET num_cols == Len(table_info.rows[1])
           fits == \A r \in 1..Len(table_info.rows) :
                      RowFits(num_cols, table_info.rows[r])
           table == [kind |-> "tbl", cols |-> num_cols,
                     rows |-> [r \in 1..Len(table_info.rows) |->
                                  FilledRow(num_cols, table_info.rows[r])]]
       IN IF ~fits THEN Raise("IndexError")
          ELSE AddTableEntries(elements \o <<table, NewParagraph>>, Tail(tables))

\* Return(document) or Raise("IndexError")
add_tables(d, st) ==
    LET r == AddTableEntries(d.body, st.tables)
    IN IF r.ok THEN Return([d EXCEPT !.body = r.value]) ELSE r

----------------------------------------------------------------------------
(* Action.action: the request *)

DotDocx == <<".", "docx">>

DotPdf == <<".", "pdf">>

\* not file_ext.startswith('.')
StartsWithDot(e) == e # <<>> /\ e[1] = "."

\* One raw chat message of the body; type is "dict", "str" or "other".
RawDict(role, from, content, text) ==
    [type |-> "dict", role |-> role, from |-> from, content |-> content,
     text |-> text, message |-> None, value |-> <<>>]

RawStr(value) ==
    [type |-> "str", role |-> None, from |-> None, content |-> None,
     text |-> None, message |-> None, value |-> value]

RawOther ==
    [type |-> "other", role |-> None, from |-> None, content |-> None,
     text |-> None, message |-> None, value |-> <<>>]

\* "Convert messages to standard format": one message, for a dict or a str.
\* str(content) of a text is that text.
FormatMessage(msg) ==
    IF msg.type = "dict"
    THEN [role |-> Some(IF msg.role # None THEN msg.role[1]
                        ELSE IF msg.from # None THEN msg.from[1]
                        ELSE DefaultRole),
          content |-> Some(IF msg.content # None THEN msg.content[1]
                           ELSE IF msg.text # None THEN msg.text[1]
                           ELSE IF msg.message # None THEN msg.message[1]
                           ELSE <<>>)]
    ELSE [role |-> Some(DefaultRole), content |-> Some(msg.value)]

IsDictOrStr(msg) == msg.type \in {"dict", "str"}

FormatMessages(msgs) ==
    LET kept == SelectSeq(msgs, IsDictOrStr)
    IN [i \in 1..Len(kept) |-> FormatMessage(kept[i])]

\* x or y on optional lists: x when it is a non-empty list
OrElse(x, y) == IF x # None /\ x[1] # <<>> THEN x ELSE y

\* Whether the lookup of the file succeeds: body['file'], or the 'file' of
\* the JSON in body['arguments'] when that string parses.
FileFound(b) ==
    \/ b.file_at = "body"
    \/ b.file_at = "args" /\ b.args_valid

\* merged_kwargs.get('file_extension', '.docx'). merged_kwargs is {**body}:
\* the assignment merged_kwargs['file_extension'] = args.get(...) in the
\* arguments branch runs before merged_kwargs is bound, raises
\* UnboundLocalError and is swallowed by that branch's except.
\* b.file_extension is <<>> when the key is absent, else <<value>>, the
\* value being None or Some(extension).
MergedFileExtension(b) ==
    IF b.file_extension = <<>> THEN Some(DotDocx) ELSE b.file_extension[1]

\* The values of the local file_ext after "Handle different file input
\* types", for the kinds that yield file content.
FileExtOf(b) ==
    CASE b.file_kind = "base64" ->
            LET e == MergedFileExtension(b)
            IN IF e # None /\ e[1] # <<>> /\ ~StartsWithDot(e[1])
               THEN Some(<<".">> \o e[1]) ELSE e
      [] b.file_kind = "bytes" -> MergedFileExtension(b)
      [] b.file_kind = "datauri" ->
            IF b.mime = "pdf" THEN Some(DotPdf)
            ELSE IF b.mime \in {"word", "docx"} THEN Some(DotDocx)
            ELSE None
      [] OTHER -> None

\* The chat messages the handler settles on, before they are formatted.
\* messages = args.get('messages') is never reached (see above), so the
\* body's own keys decide.
ResolvedMessages(b) ==
    LET first == IF b.chat_messages # None THEN b.chat_messages ELSE b.messages
    IN IF first # None THEN first[1]
       ELSE LET rest == OrElse(b.messages, OrElse(b.chat_messages, b.chat_history))
            IN IF rest # None THEN rest[1] ELSE <<>>

ChatMessagesOf(b) ==
    LET raw == ResolvedMessages(b)
    IN IF raw # <<>> THEN FormatMessages(raw) ELSE <<>>

\* The dictionaries Action.action returns.
NoResult ==
    [kind |-> "none", success |-> None, error |-> "", exc |-> "", file |-> None]

ErrorResult(msg) ==
    [kind |-> "error", success |-> None, error |-> msg, exc |-> "", file |-> None]

\* An except clause that hands back whatever the document held when the
\* exception was raised.
ExceptionResultWithOutput(e) ==
    [kind |-> "error", success |-> Some(FALSE),
     error |-> "Error processing document", exc |-> e,
     file |-> Some([content |-> [b64 |-> doc], filename |-> "formatted_chat.docx"])]

ExceptionResult(e) ==
    [kind |-> "error", success |-> Some(FALSE),
     error |-> "Error processing document", exc |-> e, file |-> None]

\* the upload modal shown through __event_call__, the error of showing it,
\* or the plain prompt when there is no __event_call__
PromptResult(b) ==
    IF b.event_call = "ok"
    THEN [kind |-> "modal", success |-> None, error |-> "", exc |-> "", file |-> None]
    ELSE IF b.event_call = "raises"
    THEN [kind |-> "prompt", success |-> Some(FALSE),
          error |-> "Error displaying file upload", exc |-> "", file |-> None]
    ELSE [kind |-> "prompt", success |-> Some(FALSE), error |-> "", exc |-> "",
          file |-> None]

\* base64.b64encode of the saved document: the wrapped bytes
SuccessResult(d) ==
    [kind |-> "success", success |-> Some(TRUE), error |-> "", exc |-> "",
     file |-> Some([content |-> [b64 |-> d], filename |-> "formatted_chat.docx"])]

----------------------------------------------------------------------------
(* Bounds and the inputs drawn within them *)

\* longest body of a source document, in paragraphs
MaxParagraphs == 2

\* longest list of content items
MaxMessages == 3

\* All sequences over S of length at most n
SeqsUpTo(S, n) == UNION {[1..k -> S] : k \in 0..n}

StyledRun(text) ==
    [text |-> text, name |-> Some("Arial"), size |-> Some(12),
     color |-> Some(255), bold |-> Some(TRUE), italic |-> None,
     underline |-> None]

\* a run whose formatting is explicit but falsy in Python
FalsyRun(text) ==
    [text |-> text, name |-> Some(""), size |-> Some(0), color |-> Some(0),
     bold |-> Some(FALSE), italic |-> Some(FALSE), underline |-> Some(FALSE)]

EmptyParagraph == NewParagraph

\* whitespace only, formatted: contributes no style entry, yet is the
\* document's first paragraph
BlankParagraph ==
    [NewParagraph EXCEPT
       !.runs = <<StyledRun(<<" ">>)>>, !.alignment = Some(1),
       !.line_spacing = Some(2), !.left_indent = Some(360),
       !.hanging_indent = Some(180)]

TextParagraph ==
    [NewParagraph EXCEPT
       !.runs = <<StyledRun(<<"H", "i">>), NewRun(<<"!">>)>>,
       !.alignment = Some(3), !.space_before = Some(120),
       !.first_line_indent = Some(240)]

FalsyParagraph ==
    [NewParagraph EXCEPT
       !.runs = <<FalsyRun(<<"o">>)>>, !.alignment = Some(0),
       !.line_spacing = Some(0), !.left_indent = Some(0),
       !.right_indent = Some(0), !.first_line_indent = Some(0),
       !.hanging_indent = Some(0), !.space_before = Some(0),
       !.space_after = Some(0)]

HeadingParagraph ==
    [NewParagraph EXCEPT
       !.runs = <<NewRun(<<"T">>)>>, !.style_name = <<"Heading", " 1">>,
       !.alignment = Some(1)]

\* whitespace only, with every format field explicitly zero
BlankFalsyParagraph == [FalsyParagraph EXCEPT !.runs = <<FalsyRun(<<" ">>)>>]

ParagraphPool ==
    {EmptyParagraph, BlankParagraph, TextParagraph, FalsyParagraph,
     HeadingParagraph, BlankFalsyParagraph}

Margins(t, b, l, r) == [top |-> t, bottom |-> b, left |-> l, right |-> r]

MarginPool ==
    {Margins(None, None, None, None),
     Margins(Some(720), Some(720), Some(720), Some(720)),
     Margins(Some(0), Some(720), Some(1440), None),
     Margins(None, Some(0), Some(0), Some(0))}

Section(m, header, footer) ==
    [top_margin |-> m.top, bottom_margin |-> m.bottom,
     left_margin |-> m.left, right_margin |-> m.right,
     start_type |-> "NEW_PAGE", header |-> header, footer |-> footer]

PlainSection(m) == Section(m, <<EmptyParagraph>>, <<EmptyParagraph>>)

SectionsPool ==
    {<<>>}
    \cup {<<PlainSection(m)>> : m \in MarginPool}
    \cup {<<Section(Margins(None, None, None, None),
                    <<TextParagraph>>, <<EmptyParagraph>>)>>,
          <<Section(Margins(Some(720), Some(720), Some(720), Some(720)),
                    <<TextParagraph, HeadingParagraph>>, <<FalsyParagraph>>)>>,
          <<PlainSection(Margins(Some(720), Some(720), Some(720), Some(720))),
            [PlainSection(Margins(None, None, None, None))
                EXCEPT !.start_type = "CONTINUOUS"]>>}

Cell(paragraphs) == [paragraphs |-> paragraphs]

Table(rows) == [rows |-> rows]

TablesPool ==
    {<<>>,
     <<Table(<<>>)>>,
     <<Table(<< <<>> >>)>>,
     <<Table(<< <<>>, <<Cell(<<>>)>> >>)>>,
     <<Table(<< <<Cell(<<TextParagraph>>), Cell(<<EmptyParagraph>>)>>,
                <<Cell(<<FalsyParagraph>>)>> >>)>>,
     <<Table(<<>>), Table(<< <<Cell(<<TextParagraph>>)>> >>)>>,
     <<Table(<< <<Cell(<<TextParagraph>>)>>,
                <<Cell(<<TextParagraph>>), Cell(<<TextParagraph>>)>> >>)>>}

SourceDocument(valid, sections, paragraphs, tables) ==
    [valid |-> valid, sections |-> sections, paragraphs |-> paragraphs,
     tables |-> tables]

BaseSections == <<PlainSection(Margins(Some(720), Some(720), Some(720), Some(720)))>>

\* a section whose header holds two paragraphs with text and whose footer
\* holds one
FullSections ==
    <<Section(Margins(Some(720), Some(720), Some(720), Some(720)),
              <<TextParagraph, HeadingParagraph>>, <<FalsyParagraph>>)>>

\* Well-formed documents: each of sections, body and tables varied in turn,
\* and documents with headers, footers, body text and tables together.
ValidSources ==
    {SourceDocument(TRUE, ss, <<>>, <<>>) : ss \in SectionsPool}
    \cup {SourceDocument(TRUE, BaseSections, ps, <<>>) :
            ps \in SeqsUpTo(ParagraphPool, MaxParagraphs)}
    \cup {SourceDocument(TRUE, BaseSections, <<>>, ts) : ts \in TablesPool}
    \cup {SourceDocument(TRUE, BaseSections, <<BlankParagraph>>, ts) :
            ts \in TablesPool}
    \cup {SourceDocument(TRUE, FullSections, <<TextParagraph>>, ts) :
            ts \in TablesPool}

\* What the uploaded file can hold: a document, or bytes that are none.
SourcePool ==
    ValidSources \cup {SourceDocument(FALSE, <<>>, <<>>, <<>>)}

RawMessagePool ==
    {RawDict(Some(<<"u", "s", "e", "r">>), None, Some(<<"H", "i">>), None),
     RawDict(None, Some(<<"A", "S">>), None, Some(<<>>)),
     RawStr(<<"o", "k">>),
     RawOther}

MessagePool ==
    {[role |-> Some(<<"u", "s", "e", "r">>), content |-> Some(<<"H", "i">>)],
     [role |-> Some(<<"a", "S">>), content |-> Some(<<>>)],
     [role |-> None, content |-> None]}

ThreeRaw ==
    <<RawDict(Some(<<"u", "s", "e", "r">>), None, Some(<<"H", "i">>), None),
      RawDict(None, Some(<<"A", "S">>), None, Some(<<>>)),
      RawStr(<<"o", "k">>)>>

\* The body, by where the file is (at), whether body['arguments'] parses
\* (av), the file's kind and MIME type, body['file_extension'] (ext), the
\* __event_call__ (ev), and body['chat_messages'], ['messages'] and
\* ['chat_history'] (cm, ms, ch). args_file_extension is the
\* 'file_extension' of the JSON in body['arguments']: <<>> when the key is
\* absent, else <<value>>; args_messages is its 'messages'.
Request(at, av, kind, mime, ext, ev, cm, ms, ch) ==
    [file_at |-> at, args_valid |-> av, file_kind |-> kind,
     decodable |-> TRUE, mime |-> mime, file_extension |-> ext,
     args_file_extension |-> <<>>, args_messages |-> None,
     event_call |-> ev, chat_messages |-> cm, messages |-> ms,
     chat_history |-> ch]

ExtensionPool ==
    {<<>>, <<None>>, <<Some(DotDocx)>>, <<Some(DotPdf)>>, <<Some(<<"docx">>)>>,
     <<Some(<<"pdf">>)>>, <<Some(<<".", "txt">>)>>, <<Some(<<>>)>>}

MessageListPool ==
    {None, Some(<<>>), Some(<<RawOther>>), Some(ThreeRaw)}
    \cup {Some(<<m>>) : m \in RawMessagePool}

\* Requests: the place of the file, its kind, its declared extension and the
\* chat messages, each varied in turn.
RequestPool ==
    {Request(at, av, "base64", "", <<Some(DotDocx)>>, ev, Some(ThreeRaw), None, None) :
        at \in {"none", "body", "args"}, av \in BOOLEAN,
        ev \in {"absent", "ok", "raises"}}
    \cup {Request("body", TRUE, k, mime, e, "ok", Some(ThreeRaw), None, None) :
            k \in {"base64", "bytes", "datauri", "other"},
            mime \in {"pdf", "word", "docx", "text"}, e \in ExtensionPool}
    \cup {Request("body", TRUE, "base64", "", e, "ok", cm, ms, None) :
            e \in {<<Some(DotDocx)>>, <<Some(DotPdf)>>},
            cm \in MessageListPool, ms \in {None, Some(ThreeRaw)}}
    \cup {Request("body", TRUE, "base64", "", <<Some(DotDocx)>>, "ok", None, ms, ch) :
            ms \in {None, Some(<<>>)}, ch \in MessageListPool}
    \cup {[Request("body", TRUE, k, "word", <<Some(DotDocx)>>, "ok",
                    Some(ThreeRaw), None, None) EXCEPT !.decodable = FALSE] :
            k \in {"base64", "datauri"}}
    \cup {[Request("args", TRUE, "base64", "", e, "ok", Some(ThreeRaw), None, None)
               EXCEPT !.args_file_extension = ae] :
            e \in {<<>>, <<Some(DotPdf)>>},
            ae \in {<<>>, <<Some(DotDocx)>>, <<Some(DotPdf)>>,
                    <<Some(<<".", "txt">>)>>}}
    \cup {[Request("args", TRUE, "base64", "", <<>>, "ok", None, None, ch)
               EXCEPT !.args_file_extension = <<Some(DotDocx)>>,
                      !.args_messages = am] :
            ch \in {None, Some(<<RawStr(<<"o", "k">>)>>)},
            am \in {None, Some(ThreeRaw)}}

----------------------------------------------------------------------------
(* Action.action, step by step *)

\* One name for both invocations' temporary input files.
TempInputShared == <<"temp_input", 0>>

\* tempfile.NamedTemporaryFile(delete=False, ...): a name no other existing
\* file has; the name an invocation holds in temp_input_path
TempInput == <<"temp_input", me>>

\* the name an invocation holds in output_path.name
TempOutput == <<"temp_output", me>>

\* "Extract parameters from body" to the prompt for an upload: the handler
\* goes on with a file, or returns after asking for one.
Resolve ==
    /\ pc = "start"
    /\ IF FileFound(body)
       THEN /\ pc' = "read"
            /\ result' = result
       ELSE /\ pc' = "done"
            /\ result' = PromptResult(body)
    /\ UNCHANGED <<body, source, file_ext, exc, fs, styles, chat, doc,
                   target, tstyle, before,
                   me, others>>

\* "Handle different file input types" and "Validate file extension". A
\* raw base64 string that does not decode is answered in place; a data URI
\* that does not decode raises to the handler's outer except.
ReadFile ==
    /\ pc = "read"
    /\ IF body.file_kind \notin {"base64", "bytes", "datauri"}
          \/ (body.file_kind = "base64" /\ ~body.decodable)
       THEN /\ pc' = "done"
            /\ file_ext' = None
            /\ result' = ErrorResult("Invalid file format")
       ELSE IF body.file_kind = "datauri" /\ ~body.decodable
       THEN /\ pc' = "done"
            /\ file_ext' = None
            /\ result' = ExceptionResult("binascii.Error")
       ELSE /\ file_ext' = FileExtOf(body)
            /\ IF FileExtOf(body) \notin {Some(DotDocx), Some(DotPdf)}
               THEN /\ pc' = "done"
                    /\ result' = ErrorResult("Unsupported file format")
               ELSE /\ pc' = "temp"
                    /\ result' = result
    /\ UNCHANGED <<body, source, exc, fs, styles, chat, doc, target, tstyle,
                   before,
                   me, others>>

\* "Save uploaded file temporarily"
SaveUpload ==
    /\ pc = "temp"
    /\ fs' = fs \cup {TempInput}
    /\ pc' = "extract"
    /\ UNCHANGED <<body, source, file_ext, exc, styles, chat, doc, result,
                   target, tstyle, before,
                   me, others>>

\* "Extract styles": a fresh DocumentStyleExtractor on the temporary file
ExtractStyles ==
    /\ pc = "extract"
    /\ LET r == IF file_ext = Some(DotDocx) THEN extract_from_docx(source)
                ELSE extract_from_pdf(source)
       IN IF r.ok
          THEN /\ styles' = r.value
               /\ exc' = exc
               /\ pc' = "messages"
          ELSE /\ styles' = styles
               /\ exc' = r.exc
               /\ pc' = "except"
    /\ UNCHANGED <<body, source, file_ext, fs, chat, doc, result, target,
                   tstyle, before,
                   me, others>>

\* The step without the return for no chat messages: the applier is built
\* whatever the list holds.
GetMessagesUnchecked ==
    /\ pc = "messages"
    /\ chat' = ChatMessagesOf(body)
    /\ pc' = "applier"
    /\ UNCHANGED <<body, source, file_ext, exc, fs, styles, doc, result,
                   target, tstyle, before,
                   me, others>>

\* "Get chat messages from various possible sources" up to the return for
\* no chat messages
GetMessages ==
    /\ pc = "messages"
    /\ chat' = ChatMessagesOf(body)
    /\ IF ChatMessagesOf(body) = <<>>
       THEN /\ pc' = "done"
            /\ result' = ErrorResult("No chat messages found")
       ELSE /\ pc' = "applier"
            /\ result' = result
    /\ UNCHANGED <<body, source, file_ext, exc, fs, styles, doc, target,
                   tstyle, before,
                   me, others>>

\* The applier calls of Action.action in the order it makes them, and the
\* staging of the output that follows them.
ApplierOrder == <<"applier", "headers", "content", "tables", "footers", "stage">>

\* an order with add_tables before add_chat_content
TablesFirstOrder == <<"applier", "headers", "tables", "content", "footers", "stage">>

AfterStepTablesFirst(step) ==
    TablesFirstOrder[(CHOOSE i \in 1..Len(TablesFirstOrder) : TablesFirstOrder[i] = step) + 1]

\* the position that follows an applier call that has returned
AfterStep(step) ==
    ApplierOrder[(CHOOSE i \in 1..Len(ApplierOrder) : ApplierOrder[i] = step) + 1]

\* DocumentStyleApplier(styles)
Construct ==
    /\ pc = "applier"
    /\ doc' = NewApplierDocument(styles)
    /\ pc' = AfterStep("applier")
    /\ UNCHANGED <<body, source, file_ext, exc, fs, styles, chat, result,
                   target, tstyle, before,
                   me, others>>

\* add_headers that takes each entry off the captured list as it writes it
AddHeadersConsuming ==
    /\ pc = "headers"
    /\ doc' = add_headers(doc, styles)
    /\ styles' = [styles EXCEPT !.headers = <<>>]
    /\ pc' = "content"
    /\ UNCHANGED <<body, source, file_ext, exc, fs, chat, result, target,
                   tstyle, before,
                   me, others>>

AddHeaders ==
    /\ pc = "headers"
    /\ doc' = add_headers(doc, styles)
    /\ pc' = AfterStep("headers")
    /\ UNCHANGED <<body, source, file_ext, exc, fs, styles, chat, result,
                   target, tstyle, before,
                   me, others>>

AddChatContent ==
    /\ pc = "content"
    /\ doc' = add_chat_content(doc, styles, chat)
    /\ pc' = AfterStep("content")
    /\ UNCHANGED <<body, source, file_ext, exc, fs, styles, chat, result,
                   target, tstyle, before,
                   me, others>>

AddTables ==
    /\ pc = "tables"
    /\ LET r == add_tables(doc, styles)
       IN IF r.ok
          THEN /\ doc' = r.value
               /\ exc' = exc
               /\ pc' = AfterStep("tables")
          ELSE /\ doc' = doc
               /\ exc' = r.exc
               /\ pc' = "except"
    /\ UNCHANGED <<body, source, file_ext, fs, styles, chat, result, target,
                   tstyle, before,
                   me, others>>

AddFooters ==
    /\ pc = "footers"
    /\ doc' = add_footers(doc, styles)
    /\ pc' = AfterStep("footers")
    /\ UNCHANGED <<body, source, file_ext, exc, fs, styles, chat, result,
                   target, tstyle, before,
                   me, others>>

\* output_path = tempfile.NamedTemporaryFile(delete=False, suffix='.docx')
StageOutput ==
    /\ pc = "stage"
    /\ fs' = fs \cup {TempOutput}
    /\ pc' = "save"
    /\ UNCHANGED <<body, source, file_ext, exc, styles, chat, doc, result,
                   target, tstyle, before,
                   me, others>>

\* applier.save(output_path.name): writes the file, or raises OSError
SaveOutput ==
    /\ pc = "save"
    /\ \E ok \in BOOLEAN :
          IF ok THEN /\ pc' = "readback"
                     /\ exc' = exc
                ELSE /\ pc' = "except"
                     /\ exc' = "OSError"
    /\ UNCHANGED <<body, source, file_ext, fs, styles, chat, doc, result,
                   target, tstyle, before,
                   me, others>>

\* "Read output file": reads it, or raises OSError
ReadOutput ==
    /\ pc = "readback"
    /\ \E ok \in BOOLEAN :
          IF ok THEN /\ pc' = "cleanup"
                     /\ exc' = exc
                ELSE /\ pc' = "except"
                     /\ exc' = "OSError"
    /\ UNCHANGED <<body, source, file_ext, fs, styles, chat, doc, result,
                   target, tstyle, before,
                   me, others>>

\* "Clean up temporary files"
\* os.unlink of a name that does not exist raises FileNotFoundError
CleanUp ==
    /\ pc = "cleanup"
    /\ IF TempInput \notin fs
       THEN /\ fs' = fs
            /\ exc' = "FileNotFoundError"
            /\ pc' = "except"
       ELSE IF TempOutput \notin fs
       THEN /\ fs' = fs \ {TempInput}
            /\ exc' = "FileNotFoundError"
            /\ pc' = "except"
       ELSE /\ fs' = (fs \ {TempInput}) \ {TempOutput}
            /\ exc' = exc
            /\ pc' = "finish"
    /\ UNCHANGED <<body, source, file_ext, styles, chat, doc, result,
                   target, tstyle, before, me, others>>

\* "Prepare file data for download" to the return of the result; a failure
\* of the download script is printed and changes nothing
ReturnSuccess ==
    /\ pc = "finish"
    /\ result' = SuccessResult(doc)
    /\ pc' = "done"
    /\ UNCHANGED <<body, source, file_ext, exc, fs, styles, chat, doc,
                   target, tstyle, before,
                   me, others>>

\* except Exception as e: "Clean up on error"
HandleException ==
    /\ pc = "except"
    /\ fs' = fs \ {TempInput}
    /\ result' = ExceptionResult(exc)
    /\ pc' = "done"
    /\ UNCHANGED <<body, source, file_ext, exc, styles, chat, doc, target,
                   tstyle, before,
                   me, others>>

NoRequest == Request("none", FALSE, "other", "", <<>>, "absent", None, None, None)

NoSource == SourceDocument(FALSE, <<>>, <<>>, <<>>)

NoStyle == extract_paragraph_style(NewParagraph)

\* no second invocation
NoOthers == <<>>

Init ==
    /\ pc = "start"
    /\ body \in RequestPool
    /\ source \in SourcePool
    /\ file_ext = None
    /\ exc = ""
    /\ fs = {}
    /\ styles = InitialStyles
    /\ chat = <<>>
    /\ doc = BlankDocument
    /\ result = NoResult
    /\ target = NewParagraph
    /\ tstyle = NoStyle
    /\ before = NewParagraph
    /\ me = 1
    /\ others = NoOthers

Next ==
    \/ Resolve
    \/ ReadFile
    \/ SaveUpload
    \/ ExtractStyles
    \/ GetMessages
    \/ Construct
    \/ AddHeaders
    \/ AddChatContent
    \/ AddTables
    \/ AddFooters
    \/ StageOutput
    \/ SaveOutput
    \/ ReadOutput
    \/ CleanUp
    \/ ReturnSuccess
    \/ HandleException

\* One invocation of Action.action
Spec == Init /\ [][Next]_vars

----------------------------------------------------------------------------
(* The Applier on its own: any StyleModel an extraction of a well-formed    *)
(* document yields, any list of content items                              *)

StyleModelPool == {ExtractedStyles(d) : d \in ValidSources}

InitApply ==
    /\ pc = "applier"
    /\ body = NoRequest
    /\ source = NoSource
    /\ file_ext = None
    /\ exc = ""
    /\ fs = {}
    /\ styles \in StyleModelPool
    /\ chat \in SeqsUpTo(MessagePool, MaxMessages)
    /\ doc = BlankDocument
    /\ result = NoResult
    /\ target = NewParagraph
    /\ tstyle = NoStyle
    /\ before = NewParagraph
    /\ me = 1
    /\ others = NoOthers

NextApply ==
    \/ Construct
    \/ AddHeaders
    \/ AddChatContent
    \/ AddTables
    \/ AddFooters
    \/ StageOutput
    \/ SaveOutput

SpecApply == InitApply /\ [][NextApply]_vars

----------------------------------------------------------------------------
(* Style application on its own: any ParagraphStyle onto any paragraph     *)

FontPool ==
    {AllNoneFont,
     extract_paragraph_style(TextParagraph).font,
     extract_paragraph_style(FalsyParagraph).font,
     [AllNoneFont EXCEPT !.italic = Some(TRUE), !.size = Some(9)],
     [AllNoneFont EXCEPT !.bold = Some(FALSE), !.name = Some("Times")]}

ParagraphStylePool ==
    {[extract_paragraph_style(p) EXCEPT !.font = f] :
        p \in ParagraphPool, f \in FontPool}

InitStyle ==
    /\ pc = "style"
    /\ body = NoRequest
    /\ source = NoSource
    /\ file_ext = None
    /\ exc = ""
    /\ fs = {}
    /\ styles = InitialStyles
    /\ chat = <<>>
    /\ doc = BlankDocument
    /\ result = NoResult
    /\ target \in ParagraphPool
    /\ tstyle \in ParagraphStylePool
    /\ before = target
    /\ me = 1
    /\ others = NoOthers

\* self._apply_style_to_paragraph(target, tstyle)
ApplyStyle ==
    /\ pc = "style"
    /\ target' = apply_style_to_paragraph(target, Some(tstyle))
    /\ pc' = "styled"
    /\ UNCHANGED <<body, source, file_ext, exc, fs, styles, chat, doc, result,
                   tstyle, before,
                   me, others>>

\* self._apply_font_to_run(target.runs[0], tstyle['font'])
ApplyFont ==
    /\ pc = "style"
    /\ target.runs # <<>>
    /\ target' = [target EXCEPT !.runs[1] = apply_font_to_run(@, tstyle.font)]
    /\ pc' = "fonted"
    /\ UNCHANGED <<body, source, file_ext, exc, fs, styles, chat, doc, result,
                   tstyle, before,
                   me, others>>

NextStyle ==
    \/ ApplyStyle
    \/ ApplyFont

SpecStyle == InitStyle /\ [][NextStyle]_vars

----------------------------------------------------------------------------
(* Properties *)

\* The handler went on to process a file it took for a DOCX / a PDF.
ProcessedDocx == file_ext = Some(DotDocx) /\ pc \notin {"start", "read"}

ProcessedPdf == file_ext = Some(DotPdf) /\ pc \notin {"start", "read"}

\* the output document a successful result carries
OutputOf(r) == r.file[1].content.b64

\* A source with one paragraph, which has text and whose first run sets font
\* name, size, color and bold itself.
SingleStyledParagraph(d) ==
    /\ d.valid
    /\ Len(d.paragraphs) = 1
    /\ HasText(d.paragraphs[1])
    /\ LET run == d.paragraphs[1].runs[1]
       IN /\ TruthyStr(run.name)
          /\ TruthyNum(run.size)
          /\ run.color # None
          /\ run.bold # None

\* C1: round trip. When the handler has finished on a DOCX source with a
\* single styled paragraph and one content item, the result is a document
\* whose content paragraph's run has the source run's font name, size,
\* color and bold.
C1_RoundTrip ==
    (/\ pc = "done"
     /\ ProcessedDocx
     /\ SingleStyledParagraph(source)
     /\ Len(ChatMessagesOf(body)) = 1)
    => /\ result.kind = "success"
       /\ LET run == OutputOf(result).body[2].runs[1]
              src == source.paragraphs[1].runs[1]
          IN /\ run.name = src.name
             /\ run.size = src.size
             /\ run.color = src.color
             /\ run.bold = src.bold

\* C2: when the handler has returned, the temporary copy of the upload is
\* gone, whichever way it returned.
C2_InputDeleted == pc = "done" => TempInput \notin fs

\* C3: when the handler has returned, the output staging file is gone, also
\* when saving or reading back failed after it was created.
C3_OutputDeleted == pc = "done" => TempOutput \notin fs

\* The DOCX path succeeds on document d with the request's messages.
DocxPathSucceeds(d, b) ==
    /\ extract_from_docx(d).ok
    /\ ChatMessagesOf(b) # <<>>
    /\ add_tables(BlankDocument, extract_from_docx(d).value).ok

\* C4: a PDF whose conversion yields a document ends as the DOCX path ends
\* on that document: where the DOCX path returns a styled document (and no
\* file operation fails), so does the PDF path.
C4_PdfAsDocx ==
    (/\ pc = "done"
     /\ ProcessedPdf
     /\ source.valid
     /\ DocxPathSucceeds(source, body)
     /\ exc # "OSError")
    => result.kind = "success"

\* C5: a PDF whose conversion fails ends in a ConversionFailed error with no
\* temporary file left.
C5_ConversionFailed ==
    (pc = "done" /\ ProcessedPdf /\ ~source.valid)
    => /\ result.kind = "error"
       /\ result.exc = "ConversionFailed"
       /\ fs = {}

\* the positions of the paragraphs without a run in a sequence of elements
BlankPositions(elements) ==
    {i \in 1..Len(elements) : elements[i].kind = "p" /\ elements[i].runs = <<>>}

\* C6: after add_chat_content with N >= 1 items the body holds exactly N - 1
\* blank paragraphs, one after each item but the last and none at the end.
C6_Separators ==
    (pc = "tables" /\ Len(chat) >= 1)
    => /\ Cardinality(BlankPositions(doc.body)) = Len(chat) - 1
       /\ BlankPositions(doc.body) = {3 * k : k \in 1..(Len(chat) - 1)}
       /\ Len(doc.body) \notin BlankPositions(doc.body)

C6_Witness ==
    /\ pc = "tables"
    /\ Len(chat) = 3
    /\ Cardinality(BlankPositions(doc.body)) = 2

\* C7: add_chat_content keeps the order of the items: item i's role label is
\* the paragraph at 3i - 2 and its text the paragraph right after it.
C7_Order ==
    pc = "tables"
    => \A i \in 1..Len(chat) :
          /\ 3 * i - 1 <= Len(doc.body)
          /\ ParagraphText(doc.body[3 * i - 2])
                = Capitalize(RoleOf(chat[i])) \o <<":", " ">>
          /\ ParagraphText(doc.body[3 * i - 1]) = ContentOf(chat[i])

C7_Witness ==
    /\ pc = "tables"
    /\ Len(chat) = 3
    /\ RoleOf(chat[1]) # RoleOf(chat[2])
    /\ ContentOf(chat[2]) # ContentOf(chat[3])
    /\ ParagraphText(doc.body[1]) = <<"U", "s", "e", "r", ":", " ">>
    /\ ParagraphText(doc.body[4]) = <<"A", "s", ":", " ">>

\* the style's value for a paragraph field of the target
StyleValue(s, f) ==
    CASE f = "alignment" -> s.alignment
      [] f = "line_spacing" -> s.line_spacing
      [] f = "left_indent" -> s.indentation.left
      [] f = "right_indent" -> s.indentation.right
      [] f = "first_line_indent" -> s.indentation.first_line
      [] f = "hanging_indent" -> s.indentation.hanging
      [] f = "space_before" -> s.space_before
      [] f = "space_after" -> s.space_after

ParagraphFields ==
    {"alignment", "line_spacing", "left_indent", "right_indent",
     "first_line_indent", "hanging_indent", "space_before", "space_after"}

FontFields == {"name", "size", "color", "bold", "italic", "underline"}

\* C8: applying a style leaves every paragraph field and every run font
\* field whose style field is unset as it was, and the runs' text with it.
C8_UnsetUntouched ==
    /\ pc = "styled"
       => /\ \A f \in ParagraphFields :
                StyleValue(tstyle, f) = None => target[f] = before[f]
          /\ Len(target.runs) = Len(before.runs)
          /\ \A i \in 1..Len(before.runs) :
                /\ target.runs[i].text = before.runs[i].text
                /\ \A f \in FontFields :
                      tstyle.font[f] = None
                      => target.runs[i][f] = before.runs[i][f]
    /\ pc = "fonted"
       => \A f \in FontFields :
             tstyle.font[f] = None => target.runs[1][f] = before.runs[1][f]

\* a style without font fields, with an alignment, applied to a paragraph
\* whose run is formatted: the run is as before, the alignment is the style's
C8_Witness ==
    /\ pc = "styled"
    /\ tstyle.font = AllNoneFont
    /\ before.runs # <<>>
    /\ before.runs[1].name # None
    /\ before.runs[1].bold # None
    /\ target.runs = before.runs
    /\ target.alignment # before.alignment

\* C9: after the applier applied the document settings, each margin the
\* StyleModel sets is the output's margin, and each margin it leaves unset
\* is the blank document's.
C9_MarginPrecedence ==
    (pc = "headers" /\ ProcessedDocx)
    => \A side \in {"top", "bottom", "left", "right"} :
          IF styles.margins[side] # None
          THEN doc.margins[side] = styles.margins[side]
          ELSE doc.margins[side] = BlankDocument.margins[side]

\* the paragraphs of a body that have text
TextParagraphs(paragraphs) == SelectSeq(paragraphs, HasText)

\* C10: extraction of a well-formed DOCX with N paragraphs that have text
\* completes, heading_styles and paragraph_styles together hold N entries,
\* and each holds its paragraphs' styles in source order.
C10_OrderPreserved ==
    (/\ ProcessedDocx
     /\ source.valid
     /\ Len(TextParagraphs(source.paragraphs)) >= 1
     /\ pc \notin {"temp", "extract"})
    => /\ exc # "AttributeError"
       /\ Len(styles.paragraph_styles) + Len(styles.heading_styles)
             = Len(TextParagraphs(source.paragraphs))
       /\ styles.paragraph_styles
             = ParagraphStylesOf(TextParagraphs(source.paragraphs))
       /\ styles.heading_styles
             = HeadingStylesOf(TextParagraphs(source.paragraphs))

\* The document the applier builds from styles and chat_messages when every
\* step returns: the steps in the order of Action.action.
CompleteDocument(st, chat_messages) ==
    LET d0 == NewApplierDocument(st)
        d1 == add_headers(d0, st)
        d2 == add_chat_content(d1, st, chat_messages)
        d3 == add_tables(d2, st).value
    IN add_footers(d3, st)

\* C11: a result of the handler is either a success, whose flag is true and
\* whose file holds the whole output document, or it carries no file at all;
\* no result that reports an error holds output document content.
C11_AllOrNothing ==
    pc = "done"
    => \/ /\ result.kind = "success"
          /\ result.success = Some(TRUE)
          /\ result.file # None
          /\ OutputOf(result) = CompleteDocument(styles, chat)
       \/ /\ result.kind # "success"
          /\ result.success # Some(TRUE)
          /\ result.file = None

\* the handler failed after the applier had written content into the document
C11_Witness ==
    /\ pc = "done"
    /\ result.kind = "error"
    /\ exc \in {"OSError", "IndexError"}
    /\ doc.body # <<>>
    /\ result.file = None

----------------------------------------------------------------------------
(* One DocumentStyleExtractor, extract_from_docx called on it twice         *)

InitExtract ==
    /\ pc = "call1"
    /\ body = NoRequest
    /\ source = NoSource
    /\ file_ext = None
    /\ exc = ""
    /\ fs = {}
    /\ styles = InitialStyles
    /\ chat = <<>>
    /\ doc = BlankDocument
    /\ result = NoResult
    /\ target = NewParagraph
    /\ tstyle = NoStyle
    /\ before = NewParagraph
    /\ me = 1
    /\ others = NoOthers

\* extractor.extract_from_docx(d) for some document d: styles is the
\* extractor's self.styles, which the call writes to and returns
CallExtract(from, to) ==
    /\ pc = from
    /\ \E d \in SourcePool :
          /\ source' = d
          /\ LET r == extract_from_docx_on(styles, d)
             IN IF r.ok
                THEN /\ styles' = r.value
                     /\ exc' = ""
                ELSE /\ styles' = StylesAfterRaise(styles, d)
                     /\ exc' = r.exc
    /\ pc' = to
    /\ UNCHANGED <<body, file_ext, fs, chat, doc, result, target, tstyle,
                   before,
                   me, others>>

FirstExtract == CallExtract("call1", "call2")

SecondExtract == CallExtract("call2", "called")

NextExtract ==
    \/ FirstExtract
    \/ SecondExtract

SpecExtract == InitExtract /\ [][NextExtract]_vars

\* C12: when the second of two successive extract calls has returned, the
\* StyleModel it returned holds the sections, tables, headers, footers and
\* paragraph styles of that call's document only, none captured by the first
\* call.
C12_FreshPerCall ==
    (pc = "called" /\ exc = "")
    => /\ styles.sections = ExtractedStyles(source).sections
       /\ styles.tables = ExtractedStyles(source).tables
       /\ styles.headers = ExtractedStyles(source).headers
       /\ styles.footers = ExtractedStyles(source).footers
       /\ styles.paragraph_styles = ExtractedStyles(source).paragraph_styles
       /\ styles.heading_styles = ExtractedStyles(source).heading_styles

\* the positions from which an applier operation runs: construction, the
\* four add_ operations, and save
ApplierPositions == {"applier", "headers", "content", "tables", "footers", "save"}

\* C13: no applier operation (construction with the document settings,
\* add_headers, add_chat_content, add_tables, add_footers, save) changes the
\* StyleModel it was given.
C13_StylesUnchanged ==
    [][(pc \in ApplierPositions) => (styles' = styles)]_vars

\* the document has been saved from a StyleModel with headers, footers and
\* tables, with content items
C13_Witness ==
    /\ pc = "readback"
    /\ styles.headers # <<>>
    /\ styles.footers # <<>>
    /\ styles.tables # <<>>
    /\ chat # <<>>
    /\ doc.body # <<>>

\* the texts of a region's paragraphs that are not empty, in order
RegionTexts(region) ==
    LET texts == [i \in 1..Len(region) |-> ParagraphText(region[i])]
        NotEmpty(t) == t # <<>>
    IN SelectSeq(texts, NotEmpty)

EntryTexts(entries) == [i \in 1..Len(entries) |-> entries[i].text]

\* C14: after add_headers the header of the output's first section holds the
\* texts of all captured header entries in captured order, and after
\* add_footers the footer holds those of all captured footer entries: no
\* entry's text is replaced by a later entry's.
C14_AllEntriesKept ==
    /\ pc \in {"content", "tables", "footers", "stage"}
          => RegionTexts(doc.header) = EntryTexts(styles.headers)
    /\ pc = "stage"
          => RegionTexts(doc.footer) = EntryTexts(styles.footers)

HasRows(table_info) == table_info.rows # <<>>

\* the body elements that follow the content items' paragraphs
AfterContent(d, st, chat_messages) ==
    LET n == Len(add_chat_content(BlankDocument, st, chat_messages).body)
    IN SubSeq(d.body, n + 1, Len(d.body))

\* C15: when add_tables has run, every captured table with at least one row
\* has one table in the output, in captured order, with as many columns as
\* the captured first row has cells and with every captured row's cell texts
\* in captured order, and each such table is followed by one blank paragraph.
C15_TablesWritten ==
    (pc = "footers" \/ (pc = "except" /\ exc = "IndexError"))
    => LET captured == SelectSeq(styles.tables, HasRows)
           written == AfterContent(doc, styles, chat)
       IN /\ pc = "footers"
          /\ Len(written) = 2 * Len(captured)
          /\ \A k \in 1..Len(captured) :
                LET table == written[2 * k - 1]
                    rows == captured[k].rows
                IN /\ table.kind = "tbl"
                   /\ table.cols = Len(rows[1])
                   /\ Len(table.rows) = Len(rows)
                   /\ \A r \in 1..Len(rows) : \A c \in 1..Len(rows[r]) :
                         ParagraphText(table.rows[r][c]) = rows[r][c].text
                   /\ written[2 * k] = NewParagraph

\* C16: when add_tables has returned, the elements it added are, for each
\* captured table that has rows and in captured order, one table followed by
\* one paragraph; a captured table without rows has added neither a table
\* nor a paragraph, and the tables captured after it are written.
C16_ZeroRowsSkipped ==
    pc = "footers"
    => LET captured == SelectSeq(styles.tables, HasRows)
           written == AfterContent(doc, styles, chat)
       IN /\ Len(written) = 2 * Len(captured)
          /\ \A k \in 1..Len(captured) :
                /\ written[2 * k - 1].kind = "tbl"
                /\ Len(written[2 * k - 1].rows) = Len(captured[k].rows)
                /\ written[2 * k].kind = "p"

\* add_tables has returned on a table without rows followed by one with rows
C16_Witness ==
    /\ pc = "footers"
    /\ Len(styles.tables) = 2
    /\ styles.tables[1].rows = <<>>
    /\ styles.tables[2].rows # <<>>
    /\ Len(AfterContent(doc, styles, chat)) = 2

\* a captured table whose first row holds no cell
ZeroColumns(table_info) == table_info.rows # <<>> /\ table_info.rows[1] = <<>>

HasColumns(table_info) == table_info.rows # <<>> /\ table_info.rows[1] # <<>>

IsTable(element) == element.kind = "tbl"

\* C17: add_tables does not fail on a captured table with zero columns and
\* creates no table for it: when it has run on captured tables none of which
\* has a row longer than its first unless its first row is empty, it has
\* returned and the output holds tables only for the captured tables whose
\* first row has a cell.
C17_ZeroColumnsSkipped ==
    (/\ pc = "footers" \/ (pc = "except" /\ exc = "IndexError")
     /\ \E t \in 1..Len(styles.tables) : ZeroColumns(styles.tables[t])
     /\ \A t \in 1..Len(styles.tables) :
           HasColumns(styles.tables[t])
           => \A r \in 1..Len(styles.tables[t].rows) :
                 RowFits(Len(styles.tables[t].rows[1]), styles.tables[t].rows[r]))
    => /\ pc = "footers"
       /\ Len(SelectSeq(doc.body, IsTable))
             = Len(SelectSeq(styles.tables, HasColumns))

Supported == {Some(DotDocx), Some(DotPdf)}

\* the file of the request can be read: its kind yields content
Readable(b) ==
    /\ FileFound(b)
    /\ b.file_kind \in {"base64", "bytes", "datauri"}
    /\ b.decodable

\* The format a request declares for its file: for a file given in
\* body['arguments'] the 'file_extension' of those arguments ('.docx' when
\* they give none), for a file given in the body what the handler takes from
\* body['file_extension'] or from the data URI's MIME type.
DeclaredFormat(b) ==
    IF b.file_at = "args" /\ b.file_kind # "datauri"
    THEN IF b.args_file_extension = <<>> THEN Some(DotDocx)
         ELSE b.args_file_extension[1]
    ELSE FileExtOf(b)

\* C18: for a request whose file can be read and whose declared format is
\* neither .docx nor .pdf (none that could be determined included), no
\* temporary file is ever created and no extraction is attempted, and the
\* handler returns the unsupported-format error.
C18_UnsupportedRejected ==
    (Readable(body) /\ DeclaredFormat(body) \notin Supported)
    => /\ fs = {}
       /\ pc \in {"start", "read", "done"}
       /\ styles = InitialStyles /\ exc = ""
       /\ pc = "done" => result = ErrorResult("Unsupported file format")

\* the positions from the construction of the applier to the success return
AfterMessages ==
    {"applier", "headers", "content", "tables", "footers", "stage", "save",
     "readback", "cleanup", "finish"}

Serializing == {"stage", "save", "readback", "cleanup", "finish"}

\* C20: the applier operations run in the order document settings, headers,
\* content, tables, footers: at each of them the document is what the ones
\* before it, in that order, have made of it; and the output is staged,
\* saved and returned only when all of them have run.
C20_FixedOrder ==
    LET d0 == NewApplierDocument(styles)
        d1 == add_headers(d0, styles)
        d2 == add_chat_content(d1, styles, chat)
        d3 == add_tables(d2, styles).value
    IN /\ pc = "headers" => doc = d0
       /\ pc = "content" => doc = d1
       /\ pc = "tables" => doc = d2
       /\ pc = "footers" => doc = d3
       /\ (pc \in Serializing \/ TempOutput \in fs \/ result.kind = "success")
             => doc = add_footers(d3, styles)

\* a successful run whose output holds content paragraphs and then a table
C20_Witness ==
    /\ pc = "done"
    /\ result.kind = "success"
    /\ OutputOf(result).body[1].kind = "p"
    /\ SelectSeq(OutputOf(result).body, IsTable) # <<>>

----------------------------------------------------------------------------
(* Two invocations of Action.action, their steps interleaved in any order   *)

\* the locals of the running invocation
Locals ==
    [pc |-> pc, body |-> body, source |-> source, file_ext |-> file_ext,
     exc |-> exc, styles |-> styles, chat |-> chat, doc |-> doc,
     result |-> result, me |-> me]

\* the locals of an invocation that has not started
FreshLocals(id, b, d) ==
    [pc |-> "start", body |-> b, source |-> d, file_ext |-> None, exc |-> "",
     styles |-> InitialStyles, chat |-> <<>>, doc |-> BlankDocument,
     result |-> NoResult, me |-> id]

\* The other invocation runs on: each has its own locals, extractor,
\* StyleModel and applier; the files on disk are the same for both.
Switch ==
    /\ others' = Locals
    /\ pc' = others.pc
    /\ body' = others.body
    /\ source' = others.source
    /\ file_ext' = others.file_ext
    /\ exc' = others.exc
    /\ styles' = others.styles
    /\ chat' = others.chat
    /\ doc' = others.doc
    /\ result' = others.result
    /\ me' = others.me
    /\ UNCHANGED <<fs, target, tstyle, before>>

PairRequests ==
    {Request("body", TRUE, "base64", "", <<Some(e)>>, "ok", cm, None, None) :
        e \in {DotDocx, DotPdf}, cm \in {Some(ThreeRaw), Some(<<>>)}}
    \cup {Request("none", FALSE, "base64", "", <<>>, "ok", Some(ThreeRaw), None, None)}

PairSources ==
    {SourceDocument(TRUE, BaseSections, <<>>, <<Table(<< <<>> >>)>>),
     SourceDocument(TRUE, FullSections, <<TextParagraph>>, <<>>),
     SourceDocument(FALSE, <<>>, <<>>, <<>>)}

InitPair ==
    /\ pc = "start"
    /\ body \in PairRequests
    /\ source \in PairSources
    /\ file_ext = None
    /\ exc = ""
    /\ fs = {}
    /\ styles = InitialStyles
    /\ chat = <<>>
    /\ doc = BlankDocument
    /\ result = NoResult
    /\ target = NewParagraph
    /\ tstyle = NoStyle
    /\ before = NewParagraph
    /\ me = 1
    /\ others \in {FreshLocals(2, b, d) : b \in PairRequests, d \in PairSources}

NextPair ==
    \/ Next
    \/ Switch

SpecPair == InitPair /\ [][NextPair]_vars

\* What Action.action can return for a request b whose file holds d when it
\* runs alone: the save and the read-back of the output may raise OSError.
SoloResults(b, d) ==
    IF ~FileFound(b) THEN {PromptResult(b)}
    ELSE IF b.file_kind \notin {"base64", "bytes", "datauri"}
            \/ (b.file_kind = "base64" /\ ~b.decodable)
    THEN {ErrorResult("Invalid file format")}
    ELSE IF ~b.decodable THEN {ExceptionResult("binascii.Error")}
    ELSE IF FileExtOf(b) \notin {Some(DotDocx), Some(DotPdf)}
    THEN {ErrorResult("Unsupported file format")}
    ELSE LET r == IF FileExtOf(b) = Some(DotDocx) THEN extract_from_docx(d)
                  ELSE extract_from_pdf(d)
         IN IF ~r.ok THEN {ExceptionResult(r.exc)}
            ELSE IF ChatMessagesOf(b) = <<>>
            THEN {ErrorResult("No chat messages found")}
            ELSE IF ~add_tables(BlankDocument, r.value).ok
            THEN {ExceptionResult("IndexError")}
            ELSE {SuccessResult(CompleteDocument(r.value, ChatMessagesOf(b))),
                  ExceptionResult("OSError")}

\* the temporary files an invocation with locals l holds at its position
FilesHeld(l) ==
    (IF l.pc \in {"extract", "messages", "applier", "headers", "content",
                  "tables", "footers", "stage", "save", "readback",
                  "cleanup", "except"}
     THEN {<<"temp_input", l.me>>} ELSE {})
    \cup (IF l.pc \in {"save", "readback", "cleanup"}
          THEN {<<"temp_output", l.me>>} ELSE {})

\* C21: with two invocations interleaved in any order, each one's temporary
\* files exist for as long as it holds them, whatever the other does, and
\* each one returns a result it can return when it runs alone on its own
\* request and file.
C21_NoInterference ==
    /\ FilesHeld(Locals) \subseteq fs
    /\ FilesHeld(others) \subseteq fs
    /\ pc = "done" => result \in SoloResults(body, source)
    /\ others.pc = "done" => others.result \in SoloResults(others.body, others.source)

\* one invocation has returned its document while the other, started
\* before that, holds its two temporary files
C21_Witness ==
    /\ pc = "done"
    /\ result.kind = "success"
    /\ others.pc = "readback"
    /\ FilesHeld(others) \subseteq fs

\* the position in the body of item i's role-label paragraph
RolePosition(i) == 3 * (i - 1) + 1

\* C22: after add_chat_content, the role-label paragraph of every content
\* item holds one run whose text is the capitalized role followed by ": ",
\* whose name, size, color, italic and underline are the default font's, and
\* which is bold whatever the default font's bold is.
C22_RoleLabel ==
    pc = "tables"
    => \A i \in 1..Len(chat) :
          LET para == doc.body[RolePosition(i)]
              run == para.runs[1]
          IN /\ Len(para.runs) = 1
             /\ run.text = Capitalize(RoleOf(chat[i])) \o <<":", " ">>
             /\ run.name = styles.default_font.name
             /\ run.size = styles.default_font.size
             /\ run.color = styles.default_font.color
             /\ run.italic = styles.default_font.italic
             /\ run.underline = styles.default_font.underline
             /\ run.bold = Some(TRUE)

\* the role "aS" written as "As: " in bold with a default font that is
\* explicitly not bold
C22_Witness ==
    /\ pc = "tables"
    /\ styles.default_font.bold = Some(FALSE)
    /\ chat # <<>>
    /\ chat[1].role = Some(<<"a", "S">>)
    /\ doc.body[1].runs[1].text = <<"A", "s", ":", " ">>
    /\ doc.body[1].runs[1].bold = Some(TRUE)

\* the position in the body of item i's content paragraph
ContentPosition(i) == 3 * (i - 1) + 2

\* a new paragraph with one unformatted run holding text
PlainParagraph(text) == [NewParagraph EXCEPT !.runs = <<NewRun(text)>>]

\* C23: after add_chat_content, the content paragraph of every item is a
\* paragraph with the item's text to which the first captured paragraph
\* style has been applied when paragraph_styles is not empty, and whose run
\* has the default font applied, and nothing else, when it is empty.
C23_ContentStyle ==
    pc = "tables"
    => \A i \in 1..Len(chat) :
          LET para == doc.body[ContentPosition(i)]
              plain == PlainParagraph(ContentOf(chat[i]))
          IN IF styles.paragraph_styles # <<>>
             THEN para = apply_style_to_paragraph(
                             plain, Some(styles.paragraph_styles[1]))
             ELSE /\ para.runs
                      = <<apply_font_to_run(plain.runs[1], styles.default_font)>>
                  /\ [para EXCEPT !.runs = plain.runs] = plain

\* content written from a StyleModel whose source held only a heading
C23_Witness ==
    /\ pc = "tables"
    /\ styles.paragraph_styles = <<>>
    /\ styles.heading_styles # <<>>
    /\ Len(chat) >= 2
    /\ doc.body[ContentPosition(2)].runs[1].name = styles.default_font.name

HeadingWithText(paragraph) == HasText(paragraph) /\ IsHeading(paragraph)

OtherWithText(paragraph) == HasText(paragraph) /\ ~IsHeading(paragraph)

\* C24: when extract_from_docx has been called on a fresh extractor for a
\* well-formed document with a body paragraph that has text, it has
\* returned, heading_styles holds one entry
\* for each body paragraph with text whose style name begins with
\* "Heading", paragraph_styles one for each other body paragraph with
\* text, and paragraphs without text have added to neither.
C24_Routing ==
    (/\ pc = "call2"
     /\ source.valid
     /\ \E i \in 1..Len(source.paragraphs) : HasText(source.paragraphs[i]))
    => /\ exc = ""
       /\ Len(styles.heading_styles)
             = Len(SelectSeq(source.paragraphs, HeadingWithText))
       /\ Len(styles.paragraph_styles)
             = Len(SelectSeq(source.paragraphs, OtherWithText))

\* the value a default takes from a field: the field's when it is set, the
\* prior default when it is unset
SetOrPrior(field, prior) == IF field # None THEN field ELSE prior

\* the font fields of a paragraph's first run, all unset without a run
FirstRunFont(paragraph) ==
    IF paragraph.runs = <<>> THEN AllNoneFont
    ELSE [name |-> paragraph.runs[1].name, size |-> paragraph.runs[1].size,
          color |-> paragraph.runs[1].color, bold |-> paragraph.runs[1].bold,
          italic |-> paragraph.runs[1].italic,
          underline |-> paragraph.runs[1].underline]

\* C25: when extract_from_docx has returned on a fresh extractor for a
\* document with a paragraph, each field of default_font, line_spacing,
\* alignment and each field of indentations is the first paragraph's value
\* where that paragraph sets it, and the initial default where it does not.
C25_Defaults ==
    (pc = "call2" /\ exc = "" /\ source.valid /\ source.paragraphs # <<>>)
    => LET first == source.paragraphs[1]
           font == FirstRunFont(first)
           init == InitialStyles
       IN /\ \A f \in {"name", "size", "color", "bold", "italic", "underline"} :
                styles.default_font[f] = SetOrPrior(font[f], init.default_font[f])
          /\ styles.line_spacing = SetOrPrior(first.line_spacing, init.line_spacing)
          /\ styles.alignment = SetOrPrior(first.alignment, init.alignment)
          /\ styles.indentations.left
                = SetOrPrior(first.left_indent, init.indentations.left)
          /\ styles.indentations.right
                = SetOrPrior(first.right_indent, init.indentations.right)
          /\ styles.indentations.first_line
                = SetOrPrior(first.first_line_indent, init.indentations.first_line)
          /\ styles.indentations.hanging
                = SetOrPrior(first.hanging_indent, init.indentations.hanging)

\* C26: applying a style writes every paragraph field the style sets to the
\* target paragraph, a field set to LEFT alignment or to a zero length like
\* any other.
C26_ZeroWritten ==
    pc = "styled"
    => \A f \in ParagraphFields :
          StyleValue(tstyle, f) # None => target[f] = StyleValue(tstyle, f)

BooleanFields == {"bold", "italic", "underline"}

\* C27: applying a font writes each of bold, italic and underline that the
\* style sets, to false as to true, to the run, and leaves the run's field
\* as it was where the style leaves it unset; applying a style does so for
\* every run of the paragraph.
C27_TriState ==
    /\ pc = "fonted"
       => \A f \in BooleanFields :
             target.runs[1][f] = IF tstyle.font[f] # None THEN tstyle.font[f]
                                 ELSE before.runs[1][f]
    /\ pc = "styled"
       => \A i \in 1..Len(target.runs) : \A f \in BooleanFields :
             target.runs[i][f] = IF tstyle.font[f] # None THEN tstyle.font[f]
                                 ELSE before.runs[i][f]

\* a font that sets bold to false applied to a run that was bold
C27_Witness ==
    /\ pc = "fonted"
    /\ tstyle.font.bold = Some(FALSE)
    /\ before.runs[1].bold = Some(TRUE)
    /\ target.runs[1].bold = Some(FALSE)

\* a request whose file is given only in body['arguments']
FileInArguments(b) == b.file_at = "args" /\ b.args_valid /\ Readable(b)

\* C28: for a file given only in body['arguments'], the format the handler
\* validates and processes is the file_extension of those arguments, and,
\* the body giving no chat_messages of its own, the content items are the
\* messages of those arguments.
C28_ArgumentsUsed ==
    FileInArguments(body)
    => /\ pc \notin {"start", "read"} => file_ext = DeclaredFormat(body)
       /\ (/\ pc \in AfterMessages \/ pc = "done"
           /\ exc = ""
           /\ file_ext \in Supported
           /\ body.chat_messages = None
           /\ body.args_messages # None)
          => chat = FormatMessages(body.args_messages[1])

\* C29: add_tables returns for every StyleModel, also one with a table whose
\* later rows hold more or fewer cells than its first, and the output then
\* holds, for each captured table with rows, a table with as many rows as
\* were captured.
C29_RaggedTables ==
    pc \in {"footers", "except"} /\ exc # "OSError"
    => /\ pc = "footers"
       /\ LET captured == SelectSeq(styles.tables, HasRows)
              tables == SelectSeq(doc.body, IsTable)
          IN /\ Len(tables) = Len(captured)
             /\ \A k \in 1..Len(captured) :
                   Len(tables[k].rows) = Len(captured[k].rows)

\* C30: when extract_from_docx has been called on a fresh extractor for a
\* well-formed document with a body paragraph that has text, it has
\* returned and each of the four fields of indentations is the value of the
\* first such paragraph where that paragraph sets it, whatever paragraphs
\* without text come before it.
C30_Indentation ==
    (/\ pc = "call2"
     /\ source.valid
     /\ \E i \in 1..Len(source.paragraphs) : HasText(source.paragraphs[i]))
    => LET populated == SelectSeq(source.paragraphs, HasText)[1]
           init == InitialStyles.indentations
       IN /\ exc = ""
          /\ styles.indentations.left = SetOrPrior(populated.left_indent, init.left)
          /\ styles.indentations.right = SetOrPrior(populated.right_indent, init.right)
          /\ styles.indentations.first_line
                = SetOrPrior(populated.first_line_indent, init.first_line)
          /\ styles.indentations.hanging
                = SetOrPrior(populated.hanging_indent, init.hanging)

====
